---- MODULE Spec2Model ----
(***************************************************************************)
(* Model of the EcoSim-AI frontend renderer:                               *)
(*   - getIslandElevation, TileHex and Island   (components/Island.tsx)    *)
(*   - Terrain (ecosystemState, shader uniforms) (components/Island.tsx)   *)
(*   - Water (colors)                 (components/EcosystemViewport.tsx)   *)
(*   - App (the asynchronous handlers and their state)          (App.tsx)  *)
(*                                                                         *)
(* Real numbers are fixed-point integers in thousandths (Q is 1.0): 0.08 is*)
(* 80, 0.15 is 150, 1.5 is 1500.  Math.random() is a stream of values in   *)
(* [0,1) drawn from RandVals.  The simplex-noise library is an external    *)
(* deterministic function of its seed source and of the sample point.      *)
(***************************************************************************)
EXTENDS Integers, Sequences, FiniteSets, Bags, TLC

\* ------------------------------------------------------------------ bounds
MaxGrid == 3          \* gridSize ranges over 1..MaxGrid
MaxTiles == 1         \* length of the tile list passed to Island
MaxSpecies == 2       \* length of the species list passed to Terrain
MaxOps == 2           \* App operations that may be under way at one time

\* ------------------------------------------------------- numeric encoding
Q == 1000             \* fixed-point unit: the real number 1.0

Max(a, b) == IF a >= b THEN a ELSE b
Min(a, b) == IF a <= b THEN a ELSE b

Abs(a) == IF a >= 0 THEN a ELSE -a

\* integer Newton iteration from a guess r >= sqrt(n): ends at floor(sqrt(n))
RECURSIVE Newton(_, _)
Newton(n, r) ==
  LET next == (r + n \div r) \div 2
  IN IF next >= r THEN r ELSE Newton(n, next)

\* Math.sqrt(a*a + b*b) on fixed-point numbers, rounded down
Hypot(a, b) ==
  IF a = 0 /\ b = 0 THEN 0 ELSE Newton(a * a + b * b, Abs(a) + Abs(b))

\* ------------------------------------------------------------- noise field
\* the values noise2D returns, in [-1, 1]
NoiseVals == <<-1000, 0, 1000>>

\* createNoise2D(random): the closure it returns holds the table built from
\* the random source (lib stands for the library's fixed internals)
CreateNoise2D(lib, random) == [table |-> lib + random \div 250]

\* noise2D(x * 0.3, y * 0.3): a deterministic function of the table and of
\* the sample point, with values in [-1, 1]
Noise2D(noise2D, x, y) ==
  NoiseVals[((noise2D.table + 2 * x + y) % Len(NoiseVals)) + 1]

\* a field that returns n everywhere
ConstantNoise(n) == [table |-> 0, constant |-> n]

\* the value the noise argument of getIslandElevation returns at (x, y)
SampleNoise(noise2D, x, y) ==
  IF "constant" \in DOMAIN noise2D THEN noise2D.constant
  ELSE Noise2D(noise2D, x, y)

\* ------------------------------------------------- getIslandElevation
\* nx = (x / gridSize) * 2 - 1
Normalize(c, gridSize) == (c * 2 * Q) \div gridSize - Q

\* distFromCenter = Math.sqrt(nx * nx + ny * ny)
DistFromCenter(x, y, gridSize) ==
  LET nx == Normalize(x, gridSize)
      ny == Normalize(y, gridSize)
  IN Hypot(nx, ny)

IslandMaskNoClamp(x, y, gridSize) ==
  Q - (DistFromCenter(x, y, gridSize) * 12) \div 10

\* islandMask = Math.max(0, 1 - distFromCenter * 1.2)
IslandMask(x, y, gridSize) ==
  Max(0, Q - (DistFromCenter(x, y, gridSize) * 12) \div 10)

GetIslandElevationUnscaled(x, y, gridSize, noise2D) ==
  LET islandMask == IslandMask(x, y, gridSize)
  IN (islandMask * islandMask) \div Q + SampleNoise(noise2D, x, y)

\* noiseValue = (noise2D(x*0.3, y*0.3) + 1) / 2
\* elevation  = islandMask * islandMask * (0.5 + noiseValue * 0.5)
GetIslandElevation(x, y, gridSize, noise2D) ==
  LET islandMask == IslandMask(x, y, gridSize)
      noiseValue == (SampleNoise(noise2D, x, y) + Q) \div 2
  IN (islandMask * islandMask * (Q \div 2 + noiseValue \div 2)) \div (Q * Q)

\* ------------------------------------------------------------ input data
\* BiomeKind: the biomes that have an entry in BIOME_COLORS
KnownBiomes == {"water", "beach", "grassland", "forest", "mountain"}

\* a biome label that is not in the enumeration
UnlistedBiome == "unlisted"

\* the biomes of the tiles passed in ("water" takes the same branches as
\* "beach": a colour of its own, no decoration)
BiomeOrder == <<"forest", "mountain", "grassland", "beach", UnlistedBiome>>

GridSizes == 1..MaxGrid

\* The tile arrays the caller may pass for a grid of the given size: runs of
\* up to MaxTiles distinct cells in row-major order from any start cell, the
\* biomes following BiomeOrder from any start biome.
TileLists(gridSize) ==
  { [i \in 1..len |->
       [x |-> (x0 + i - 1) % gridSize,
        y |-> (y0 + (x0 + i - 1) \div gridSize) % gridSize,
        biome |-> BiomeOrder[((p + i - 1) % Len(BiomeOrder)) + 1]]] :
      len \in 0..Min(MaxTiles, gridSize * gridSize),
      x0 \in 0..(gridSize - 1), y0 \in 0..(gridSize - 1),
      p \in 0..(Len(BiomeOrder) - 1) }

\* the end-to-end input: grid size 8 with one mountain tile at (4,4)
EndToEndGrid == 8

EndToEndTiles == <<[x |-> 4, y |-> 4, biome |-> "mountain"]>>

\* the grid sizes passed to Island
IslandGrids == GridSizes \cup {EndToEndGrid}

\* the tile arrays by grid size
TileListsOf ==
  [g \in IslandGrids |->
     IF g \in GridSizes THEN TileLists(g) ELSE {EndToEndTiles}]

\* Math.random(): values in [0,1), in thousandths
RandVals == <<250, 700, 750>>

\* one run of Math.random() calls: call number k (from 0) returns Draw(s, k)
\* (s is where the generator stands when the run starts)
Streams == 0..(Len(RandVals) - 1)

Draw(s, k) == RandVals[((s + k) % Len(RandVals)) + 1]

\* the random source of the noise field
NoiseSourceMathRandom(r) == r

\* the random source handed to createNoise2D: () => 0.5
NoiseSource(r) == 500

\* ------------------------------------------------------- tileElevations
DigitChars == <<"0", "1", "2", "3", "4", "5", "6", "7", "8", "9">>

\* the decimal rendering of a non-negative integer in a template string
RECURSIVE Digits(_)
Digits(n) ==
  IF n < 10 THEN <<DigitChars[n + 1]>>
  ELSE Digits(n \div 10) \o <<DigitChars[(n % 10) + 1]>>

\* `${tile.x}-${tile.y}`
TileKey(x, y) == Digits(x) \o <<"-">> \o Digits(y)

\* Map.set: the last value set for a key wins
MapSet(m, k, v) == [kk \in (DOMAIN m) \cup {k} |-> IF kk = k THEN v ELSE m[kk]]

RECURSIVE ElevationsFrom(_, _, _, _, _)
ElevationsFrom(tl, i, gridSize, noise, elevations) ==
  IF i > Len(tl) THEN elevations
  ELSE ElevationsFrom(tl, i + 1, gridSize, noise,
         MapSet(elevations, TileKey(tl[i].x, tl[i].y),
                GetIslandElevation(tl[i].x, tl[i].y, gridSize, noise)))

EmptyMap == [k \in {} |-> 0]

\* the tileElevations useMemo body
TileElevations(tl, gridSize, noise) ==
  ElevationsFrom(tl, 1, gridSize, noise, EmptyMap)

\* tileElevations.get(`${tile.x}-${tile.y}`) || 0
ElevationOf(elevations, tile) ==
  LET k == TileKey(tile.x, tile.y)
  IN IF k \in DOMAIN elevations THEN elevations[k] ELSE 0

RenderHeightFalling(elevation) == 1600 - (elevation * 1500) \div Q

\* const height = 0.1 + elevation * 1.5  (TileHex)
RenderHeight(elevation) == 100 + (elevation * 1500) \div Q

BaseHeightCentre(elevation) == (100 + (elevation * 1500) \div Q) \div 2

\* const baseHeight = 0.1 + elevation * 1.5  (the props useMemo)
BaseHeight(elevation) == 100 + (elevation * 1500) \div Q

\* const offset = gridSize / 2 - 0.5
Offset(gridSize) == (gridSize * Q) \div 2 - Q \div 2

\* ------------------------------------------------------ props (decorations)
DecorationEligibleBelowWater(elevation) == ~(elevation < 15)

\* if (elevation < 0.15) return;  -- the tile gets no decoration
DecorationEligible(elevation) == ~(elevation < 150)

TreeCountUpToThree(r) == 1 + (r * 3) \div Q

\* const treeCount = 1 + Math.floor(Math.random() * 2)
TreeCount(r) == 1 + (r * 2) \div Q

\* one forest tree: jitter (Math.random() - 0.5) * 0.4 on x and z,
\* scale 0.7 + Math.random() * 0.4
TreeItem(baseX, baseHeight, baseZ, s, k) ==
  [type |-> "tree",
   position |-> <<baseX + ((Draw(s, k) - 500) * 4) \div 10,
                  baseHeight,
                  baseZ + ((Draw(s, k + 1) - 500) * 4) \div 10>>,
   scale |-> 700 + (Draw(s, k + 2) * 4) \div 10]

RECURSIVE Trees(_, _, _, _, _, _, _)
Trees(i, treeCount, baseX, baseHeight, baseZ, s, k) ==
  IF i >= treeCount THEN <<>>
  ELSE <<TreeItem(baseX, baseHeight, baseZ, s, k)>>
       \o Trees(i + 1, treeCount, baseX, baseHeight, baseZ, s, k + 3)

\* scale 0.8 + Math.random() * 0.4, at the tile centre
MountainItem(baseX, baseHeight, baseZ, s, k) ==
  [type |-> "mountain",
   position |-> <<baseX, baseHeight, baseZ>>,
   scale |-> 800 + (Draw(s, k) * 4) \div 10]

\* jitter (Math.random() - 0.5) * 0.3, scale 0.5 + Math.random() * 0.5
RockItem(baseX, baseHeight, baseZ, s, k) ==
  [type |-> "rock",
   position |-> <<baseX + ((Draw(s, k) - 500) * 3) \div 10,
                  baseHeight,
                  baseZ + ((Draw(s, k + 1) - 500) * 3) \div 10>>,
   scale |-> 500 + (Draw(s, k + 2) * 5) \div 10]

\* the body of tiles.forEach in the props useMemo, for one tile: the items it
\* pushes and the number of Math.random() calls it makes, the first being
\* call number k
TileProps(tile, gridSize, elevations, s, k) ==
  LET elevation == ElevationOf(elevations, tile)
      baseHeight == BaseHeight(elevation)
      baseX == tile.x * Q - Offset(gridSize)
      baseZ == tile.y * Q - Offset(gridSize)
  IN IF ~DecorationEligible(elevation) THEN [items |-> <<>>, used |-> 0]
     ELSE IF tile.biome = "forest" THEN
       LET treeCount == TreeCount(Draw(s, k))
       IN [items |-> Trees(0, treeCount, baseX, baseHeight, baseZ, s, k + 1),
           used |-> 1 + 3 * treeCount]
     ELSE IF tile.biome = "mountain" THEN
       [items |-> <<MountainItem(baseX, baseHeight, baseZ, s, k)>>, used |-> 1]
     ELSE IF tile.biome = "grassland" THEN
       IF Draw(s, k) > 700
       THEN [items |-> <<RockItem(baseX, baseHeight, baseZ, s, k + 1)>>,
             used |-> 4]
       ELSE [items |-> <<>>, used |-> 1]
     ELSE [items |-> <<>>, used |-> 0]

\* tiles.forEach in the props useMemo from tile i on: items holds what was
\* pushed so far, k counts the Math.random() calls made so far
RECURSIVE PropsFrom(_, _, _, _, _, _, _)
PropsFrom(tl, i, gridSize, elevations, s, k, items) ==
  IF i > Len(tl) THEN [items |-> items, used |-> k]
  ELSE LET Pushed(one) ==
             PropsFrom(tl, i + 1, gridSize, elevations, s, k + one.used,
                       items \o one.items)
       IN Pushed(TileProps(tl[i], gridSize, elevations, s, k))

\* the props useMemo body: the items and the number of random draws
Props(tl, gridSize, elevations, s) ==
  PropsFrom(tl, 1, gridSize, elevations, s, 0, <<>>)

\* --------------------------------------------------------- Island render
\* selectedTile: null
Null == <<>>

\* BIOME_COLORS (types.ts): the display colour of each known biome
BIOME_COLORS == [b \in KnownBiomes |-> "color-" \o b]

\* BIOME_COLORS[tile.biome]: a missing key reads as undefined
BiomeColor(biome) ==
  IF biome \in DOMAIN BIOME_COLORS THEN BIOME_COLORS[biome] ELSE "undefined"

\* if (elevation < 0.08) return null;  -- the tile gets no mesh
Visible(elevation) == ~(elevation < 80)

\* selectedTile?.[0] === tile.x && selectedTile?.[1] === tile.y
IsSelected(sel, tile) == sel # Null /\ sel[1] = tile.x /\ sel[2] = tile.y

OnClickSwapped(tile) == <<<<tile.y, tile.x>>>>

\* TileHex's onClick with Island's handler () => onTileSelect(tile.x, tile.y):
\* the calls of onTileSelect one click on the tile's mesh makes
OnClick(tile) == <<<<tile.x, tile.y>>>>

\* no mesh was clicked
NoClick == [target |-> Null, calls |-> <<>>]

\* TileHex: the mesh of one tile (x, y name the tile the mesh was made for)
TileHex(tile, elevation, gridSize, isSelected) ==
  LET color == BiomeColor(tile.biome)
      offset == Offset(gridSize)
      height == RenderHeight(elevation)
  IN [x |-> tile.x, y |-> tile.y,
      position |-> <<tile.x * Q - offset, height \div 2, tile.y * Q - offset>>,
      height |-> height,
      color |-> IF isSelected THEN "#ffffff" ELSE color,
      edges |-> IF isSelected THEN "#00ffff" ELSE "#ffffff"]

\* tiles.map(...) in the Island render: one TileHex per visible tile
RECURSIVE MeshesFrom(_, _, _, _, _)
MeshesFrom(tl, i, gridSize, elevations, sel) ==
  IF i > Len(tl) THEN <<>>
  ELSE LET elevation == ElevationOf(elevations, tl[i])
       IN (IF ~Visible(elevation) THEN <<>>
           ELSE <<TileHex(tl[i], elevation, gridSize, IsSelected(sel, tl[i]))>>)
          \o MeshesFrom(tl, i + 1, gridSize, elevations, sel)

\* Rock: rotation={[0, Math.random() * Math.PI, 0]}, evaluated in each render
\* of the element; the value is the fraction of PI
RockRotation(s, k) == Draw(s, k)

\* props.map(...) in the Island render: Tree, Rock and MountainPeak elements;
\* the first Math.random() call of a Rock in this render is call number k
RECURSIVE DecorationsFrom(_, _, _, _)
DecorationsFrom(items, i, s, k) ==
  IF i > Len(items) THEN [elems |-> <<>>, used |-> 0]
  ELSE LET isRock == items[i].type = "rock"
           rest == DecorationsFrom(items, i + 1, s, IF isRock THEN k + 1 ELSE k)
       IN [elems |-> <<[type |-> items[i].type,
                        position |-> items[i].position,
                        scale |-> items[i].scale,
                        rotation |-> IF isRock THEN RockRotation(s, k) ELSE 0]>>
                     \o rest.elems,
           used |-> (IF isRock THEN 1 ELSE 0) + rest.used]

\* -------------------------------------------------- Terrain: ecosystemState
Diets == {"producer", "herbivore"}

Populations == {-5000, 4000, 12000}

SpeciesLists ==
  UNION { [1..len -> [diet : Diets, population : Populations]] :
            len \in 0..MaxSpecies }

Seasons == {"winter", "spring", "summer", "fall", "monsoon"}

\* plants.reduce((sum, s) => sum + s.population, 0) over the producers
RECURSIVE TotalPlants(_, _)
TotalPlants(species, i) ==
  IF i > Len(species) THEN 0
  ELSE (IF species[i].diet = "producer" THEN species[i].population ELSE 0)
       + TotalPlants(species, i + 1)

\* Math.min(1.0, totalPlants / 10000)
VegetationHealth(species) == Min(Q, (TotalPlants(species, 1) * Q) \div 10000)

SeasonTintNoBreak(season) == <<1000, 1000, 1000>>

\* the switch (season)
SeasonTint(season) ==
  CASE season = "winter" -> <<900, 950, 1100>>
    [] season = "spring" -> <<950, 1100, 950>>
    [] season = "summer" -> <<1100, 1050, 900>>
    [] season = "fall"   -> <<1150, 950, 800>>
    [] OTHER             -> <<1000, 1000, 1000>>

EcosystemStateNoDefault(species, season) ==
  [vegetationHealth |-> VegetationHealth(species),
   seasonTint |-> SeasonTint(season)]

\* the ecosystemState useMemo body
EcosystemState(species, season) ==
  IF Len(species) = 0
  THEN [vegetationHealth |-> 1000, seasonTint |-> <<1000, 1000, 1000>>]
  ELSE [vegetationHealth |-> VegetationHealth(species),
        seasonTint |-> SeasonTint(season)]

\* --------------------------------------------------------- Water: colors
HealthValues == {-500, 0, 500, 1000, 1500}

\* THREE.Color.lerp(color, alpha), per channel (0..255): c += (t - c) * alpha
Lerp(c, t, alpha) ==
  [i \in 1..3 |-> c[i] + ((t[i] - c[i]) * alpha) \div Q]

HealthyColor == <<30, 144, 255>>        \* '#1E90FF'
HealthyDeep == <<0, 102, 204>>          \* '#0066CC'
HealthyFoam == <<135, 206, 235>>        \* '#87CEEB'
UnhealthyColor == <<74, 93, 74>>        \* '#4A5D4A'
UnhealthyDeep == <<47, 61, 47>>         \* '#2F3D2F'
UnhealthyFoam == <<107, 123, 107>>      \* '#6B7B6B'

\* the colors useMemo body; alpha is the factor handed to lerp
WaterColors(ecosystemHealth) ==
  [alpha |-> Q - ecosystemHealth,
   color |-> Lerp(HealthyColor, UnhealthyColor, Q - ecosystemHealth),
   deepColor |-> Lerp(HealthyDeep, UnhealthyDeep, Q - ecosystemHealth),
   foamColor |-> Lerp(HealthyFoam, UnhealthyFoam, Q - ecosystemHealth),
   opacity |-> 900 + (ecosystemHealth * 50) \div Q]

\* ------------------------------------------------------------ App: data
\* useState<EcosystemState | null>(null), useState<string | null>(null)
NoEcosystem == "null"
NoError == "null"

\* the state createEcosystem(8) resolves to
CreatedState == "created"

\* what advanceTurn(intervention) may resolve to
AdvanceResults ==
  { [new_state |-> "turnA", events |-> "eventsA", narration |-> "narrationA",
     warnings |-> "warningsA"],
    [new_state |-> "turnB", events |-> "eventsB", narration |-> "narrationB",
     warnings |-> "none"] }

\* the files handed to handleLoad: not JSON; JSON without version/ecosystem
\* and without species/tiles; a SaveFile; a raw EcosystemState
Files == {"notJson", "noData", "save", "raw"}

\* JSON.parse(text) throws
ParseFails(file) == file = "notJson"

\* saveData.version && saveData.ecosystem
IsSaveFormat(file) == file = "save"

\* saveData.species && saveData.tiles
IsRawState(file) == file = "raw"

\* the state loadEcosystem(ecosystemToLoad) resolves to
LoadedState(file) == "loaded-" \o file

\* saveData.events || []
LoadedEvents(file) == IF IsSaveFormat(file) THEN "savedEvents" ELSE "none"

\* saveData.narration || 'Save file loaded successfully!'
LoadedNarration(file) ==
  IF IsSaveFormat(file) THEN "savedNarration"
  ELSE "Save file loaded successfully!"

\* the message of the error thrown before the backend is asked, if any
ParseError(file) ==
  IF ParseFails(file) THEN "Invalid JSON file"
  ELSE IF ~IsSaveFormat(file) /\ ~IsRawState(file)
       THEN "Invalid save file format - missing required data"
       ELSE NoError

CanAdvanceAlways(eco) == TRUE

\* if (!ecosystem) return;
CanAdvance(eco) == eco # NoEcosystem

\* an operation under way: create and advance wait for the backend from the
\* start; a load first reads the file (phase "read"), then asks the backend
Op(op, phase, file) == [op |-> op, phase |-> phase, file |-> file]

CreateOp == Op("create", "request", "none")
AdvanceOp == Op("advance", "request", "none")

\* the latest handler step: which operation, and what became of it
Step(op, result) == [op |-> op, result |-> result]

\* ------------------------------------------------------------------ state
VARIABLES
  noiseLib,        \* the simplex-noise library's internals (fixed)
  tiles,           \* Island prop: the tile array
  gridSize,        \* Island prop
  selectedTile,    \* Island prop: Null or <<x, y>>
  noise2D,         \* useMemo(() => createNoise2D(() => 0.5), [])
  tileElevations,  \* useMemo: key -> elevation
  props,           \* useMemo: the decoration items
  meshes,          \* the TileHex elements of the latest render
  decorations,     \* the Tree/Rock/MountainPeak elements of the latest render
  renderDraws,     \* Math.random() calls made by the latest render
  rebuilt,         \* the latest render built the elevation map anew for the
                   \* tile list and grid size it already had
  click,           \* the tile clicked since the latest render, if any, and
                   \* the onTileSelect calls the click made
  species,         \* Terrain prop
  season,          \* Terrain prop
  ecosystemState,  \* Terrain useMemo
  uniforms,        \* material.uniforms: vegetationHealth, seasonTint
  effectPending,   \* the uniform-updating useEffect has yet to run
  ecosystemHealth, \* Water prop
  colors,          \* Water useMemo
  waterUniforms,   \* materialRef.current.uniforms, set by useFrame
  call,            \* arguments of a getIslandElevation call
  ret,             \* its return value, once it has returned
  ecosystem,       \* App state
  isLoading,       \* App state
  events,          \* App state
  narration,       \* App state
  warnings,        \* App state
  error,           \* App state
  pending,         \* the operations under way (a bag)
  lastStep         \* the latest handler step and its result

islandVars == <<noiseLib, tiles, gridSize, selectedTile, noise2D,
                tileElevations, props, meshes, decorations, renderDraws,
                rebuilt, click>>
terrainVars == <<species, season, ecosystemState, uniforms, effectPending>>
waterVars == <<ecosystemHealth, colors, waterUniforms>>
callVars == <<call, ret>>
appVars == <<ecosystem, isLoading, events, narration, warnings, error, pending,
             lastStep>>
vars == <<islandVars, terrainVars, waterVars, callVars, appVars>>

\* ------------------------------------------------------------ Island steps
\* One render of Island with the given props.  elevations: the value of the
\* tileElevations memo in this render.  recompute: the dependencies of the
\* props memo changed (or the component is new).  first: the Math.random()
\* values the render may start from (s: the one it does start from).
IslandRendered(tl, g, sel, noise, elevations, recompute, first) ==
  \E hexes \in {MeshesFrom(tl, 1, g, elevations, sel)} :
  \E s \in first :
  \E placed \in {IF recompute THEN Props(tl, g, elevations, s)
                              ELSE [items |-> props, used |-> 0]} :
  \E drawn \in {DecorationsFrom(placed.items, 1, s, placed.used)} :
     /\ tiles' = tl
     /\ gridSize' = g
     /\ selectedTile' = sel
     /\ noise2D' = noise
     /\ tileElevations' = elevations
     /\ props' = placed.items
     /\ meshes' = hexes
     /\ decorations' = drawn.elems
     /\ renderDraws' = placed.used + drawn.used
     /\ rebuilt' = (recompute /\ tl = tiles /\ g = gridSize)
     /\ click' = NoClick
     /\ UNCHANGED noiseLib

\* the state after Island is mounted and rendered for the first time
IslandInit ==
  \E lib \in 0..(Len(NoiseVals) - 1), g \in IslandGrids :
    \E tl \in TileListsOf[g], s \in Streams :
    \E noise \in {CreateNoise2D(lib, NoiseSource(Draw(s, 0)))} :
    \E elevations \in {TileElevations(tl, g, noise)} :
    \E placed \in {Props(tl, g, elevations, s)} :
    \E drawn \in {DecorationsFrom(placed.items, 1, s, placed.used)} :
         /\ noiseLib = lib
         /\ tiles = tl
         /\ gridSize = g
         /\ selectedTile = Null
         /\ noise2D = noise
         /\ tileElevations = elevations
         /\ props = placed.items
         /\ meshes = MeshesFrom(tl, 1, g, elevations, Null)
         /\ decorations = drawn.elems
         /\ renderDraws = placed.used + drawn.used
         /\ rebuilt = FALSE
         /\ click = NoClick

\* the caller passes a new tile array and grid size (a new simulation
\* snapshot, or the same one loaded again): both memos are recomputed
NewSnapshot(g, tl) ==
  /\ \E elevations \in {TileElevations(tl, g, noise2D)} :
       IslandRendered(tl, g, selectedTile, noise2D, elevations, TRUE, Streams)
  /\ UNCHANGED <<terrainVars, waterVars, callVars, appVars>>

\* the caller passes another selectedTile: the memos are reused
Reselect(sel) ==
  /\ sel # selectedTile
  /\ IslandRendered(tiles, gridSize, sel, noise2D, tileElevations, FALSE,
                    Streams)
  /\ UNCHANGED <<terrainVars, waterVars, callVars, appVars>>

\* Island is unmounted and mounted again with the same props (a reload of
\* the same tile set): noise2D and both memos are built anew
Remount ==
  /\ \E s \in Streams :
       \E noise \in {CreateNoise2D(noiseLib, NoiseSource(Draw(s, 0)))} :
       \E elevations \in {TileElevations(tiles, gridSize, noise)} :
         IslandRendered(tiles, gridSize, selectedTile, noise, elevations,
                        TRUE, {s})
  /\ UNCHANGED <<terrainVars, waterVars, callVars, appVars>>

\* the user clicks the mesh of a rendered tile: the click reaches that mesh
\* alone (e.stopPropagation()) and runs its onClick; Island sets no state
Activate(j) ==
  /\ j \in 1..Len(meshes)
  /\ click' = [target |-> <<meshes[j].x, meshes[j].y>>,
               calls |-> OnClick(meshes[j])]
  /\ UNCHANGED <<noiseLib, tiles, gridSize, selectedTile, noise2D,
                 tileElevations, props, meshes, decorations, renderDraws,
                 rebuilt>>
  /\ UNCHANGED <<terrainVars, waterVars, callVars, appVars>>

\* the selections the caller may pass
Selections == {Null, <<1, 1>>}

NextIsland ==
  \/ \E g \in IslandGrids : \E tl \in TileListsOf[g] : NewSnapshot(g, tl)
  \/ \E sel \in Selections : Reselect(sel)
  \/ Remount

\* the selection loop: clicks, and the renders that follow a new selection
\* or a remount
NextSelect ==
  \/ \E j \in 1..MaxTiles : Activate(j)
  \/ \E sel \in Selections : Reselect(sel)
  \/ Remount

\* ----------------------------------------------------------- Terrain steps
\* the material useMemo: a new ShaderMaterial whose uniforms start from
\* ecosystemState
MaterialUniforms(state) ==
  [vegetationHealth |-> state.vegetationHealth, seasonTint |-> state.seasonTint]

TerrainInit ==
  \E sp \in SpeciesLists, se \in Seasons :
    /\ species = sp
    /\ season = se
    /\ ecosystemState = EcosystemState(sp, se)
    /\ uniforms = MaterialUniforms(EcosystemState(sp, se))
    /\ effectPending = TRUE

EcosystemStateDepsSpeciesOnly(sp, se) == <<sp>>

\* the dependency array of the ecosystemState useMemo: [species, season]
EcosystemStateDeps(sp, se) == <<sp, se>>

\* Terrain renders with a new species snapshot and season: ecosystemState is
\* recomputed when its dependencies changed, and the material (with its
\* uniforms) is built anew when ecosystemState was
TerrainRender(sp, se) ==
  \E state \in {IF EcosystemStateDeps(sp, se)
                     # EcosystemStateDeps(species, season)
                THEN EcosystemState(sp, se) ELSE ecosystemState} :
    /\ species' = sp
    /\ season' = se
    /\ ecosystemState' = state
    /\ uniforms' = MaterialUniforms(state)
    /\ effectPending' = TRUE
  /\ UNCHANGED <<islandVars, waterVars, callVars, appVars>>

\* useEffect(..., [ecosystemState, material])
TerrainEffect ==
  /\ effectPending
  /\ uniforms' = [vegetationHealth |-> ecosystemState.vegetationHealth,
                  seasonTint |-> ecosystemState.seasonTint]
  /\ effectPending' = FALSE
  /\ UNCHANGED <<species, season, ecosystemState>>
  /\ UNCHANGED <<islandVars, waterVars, callVars, appVars>>

\* ------------------------------------------------------------- Water steps
\* the uniforms of the water material before the first frame: none copied
NoUniforms == [set |-> FALSE, alpha |-> 0, color |-> <<0, 0, 0>>, opacity |-> 0]

WaterInit ==
  \E h \in HealthValues :
    /\ ecosystemHealth = h
    /\ colors = WaterColors(h)
    /\ waterUniforms = NoUniforms

\* Water renders with a new ecosystemHealth
WaterRender(h) ==
  /\ h # ecosystemHealth
  /\ ecosystemHealth' = h
  /\ colors' = WaterColors(h)
  /\ UNCHANGED waterUniforms
  /\ UNCHANGED <<islandVars, terrainVars, callVars, appVars>>

\* useFrame: copy colors into the material uniforms
WaterFrame ==
  /\ waterUniforms' = [set |-> TRUE, alpha |-> colors.alpha,
                       color |-> colors.color, opacity |-> colors.opacity]
  /\ UNCHANGED <<ecosystemHealth, colors>>
  /\ UNCHANGED <<islandVars, terrainVars, callVars, appVars>>

NextTerrain ==
  \/ \E sp \in SpeciesLists, se \in Seasons : TerrainRender(sp, se)
  \/ TerrainEffect

NextShading ==
  \/ \E sp \in SpeciesLists, se \in Seasons : TerrainRender(sp, se)
  \/ TerrainEffect
  \/ \E h \in HealthValues : WaterRender(h)
  \/ WaterFrame

\* ------------------------------------------------ getIslandElevation calls
\* noise values handed to a single call, in [-1, 1]
CallNoiseVals == {-1000, -500, 0, 500, 1000}

CallInputs ==
  [x : 0..MaxGrid, y : 0..MaxGrid, gridSize : GridSizes, noise : CallNoiseVals]

CallInit ==
  /\ call \in CallInputs
  /\ ret = [done |-> FALSE, value |-> 0]

\* getIslandElevation is called with new arguments
Call(c) ==
  /\ ret.done
  /\ call' = c
  /\ ret' = [done |-> FALSE, value |-> 0]
  /\ UNCHANGED <<islandVars, terrainVars, waterVars, appVars>>

\* the call returns
Return ==
  /\ ~ret.done
  /\ ret' = [done |-> TRUE,
             value |-> GetIslandElevation(call.x, call.y, call.gridSize,
                                          ConstantNoise(call.noise))]
  /\ UNCHANGED call
  /\ UNCHANGED <<islandVars, terrainVars, waterVars, appVars>>

NextCall ==
  \/ \E c \in CallInputs : Call(c)
  \/ Return

\* ---------------------------------------------------------------- App steps
\* Each handler runs to its first await in one step; what follows an await
\* runs in one step when the awaited promise settles.
othersVars == <<islandVars, terrainVars, waterVars, callVars>>

\* the state before the mount effect has run
AppRest ==
  /\ ecosystem = NoEcosystem /\ isLoading = FALSE /\ events = "none"
  /\ narration = "" /\ warnings = "none" /\ error = NoError
  /\ pending = EmptyBag /\ lastStep = Step("none", "none")

\* the state after App is mounted: the mount effect has called
\* initializeEcosystem, which waits for createEcosystem(8)
AppInit ==
  /\ ecosystem = NoEcosystem /\ isLoading = TRUE /\ events = "none"
  /\ narration = "" /\ warnings = "none" /\ error = NoError
  /\ pending = SetToBag({CreateOp}) /\ lastStep = Step("create", "started")

\* an operation begins: setIsLoading(true); setError(null); then the await
Begin(op, name) ==
  /\ BagCardinality(pending) < MaxOps
  /\ isLoading' = TRUE
  /\ error' = NoError
  /\ pending' = pending (+) SetToBag({op})
  /\ lastStep' = Step(name, "started")
  /\ UNCHANGED <<ecosystem, events, narration, warnings>>

\* catch: setError(message); finally: setIsLoading(false)
Fail(op, name, message) ==
  /\ pending' = pending (-) SetToBag({op})
  /\ error' = message
  /\ isLoading' = FALSE
  /\ lastStep' = Step(name, "failed")
  /\ UNCHANGED <<ecosystem, events, narration, warnings>>

\* initializeEcosystem (the mount effect, the Retry button), to its await
InitializeEcosystem ==
  /\ Begin(CreateOp, "create")
  /\ UNCHANGED othersVars

\* initializeEcosystem after createEcosystem(8) has settled
InitializeEcosystemResume(ok) ==
  /\ BagIn(CreateOp, pending)
  /\ IF ok
     THEN /\ ecosystem' = CreatedState
          /\ narration' = "A new ecosystem has been created."
          /\ isLoading' = FALSE
          /\ pending' = pending (-) SetToBag({CreateOp})
          /\ lastStep' = Step("create", "succeeded")
          /\ UNCHANGED <<events, warnings, error>>
     ELSE Fail(CreateOp, "create", "Failed to connect to backend.")
  /\ UNCHANGED othersVars

\* handleAdvanceTurn, to its return or its await
HandleAdvanceTurn ==
  /\ \/ /\ ~CanAdvance(ecosystem)
        /\ lastStep' = Step("advance", "ignored")
        /\ UNCHANGED <<ecosystem, isLoading, events, narration, warnings,
                       error, pending>>
     \/ /\ CanAdvance(ecosystem)
        /\ Begin(AdvanceOp, "advance")
  /\ UNCHANGED othersVars

\* handleAdvanceTurn after advanceTurn(intervention) has settled
HandleAdvanceTurnResume(ok, result) ==
  /\ BagIn(AdvanceOp, pending)
  /\ IF ok
     THEN /\ ecosystem' = result.new_state
          /\ events' = result.events
          /\ narration' = result.narration
          /\ warnings' = result.warnings
          /\ isLoading' = FALSE
          /\ pending' = pending (-) SetToBag({AdvanceOp})
          /\ lastStep' = Step("advance", "succeeded")
          /\ UNCHANGED error
     ELSE Fail(AdvanceOp, "advance", "Failed to advance simulation.")
  /\ UNCHANGED othersVars

\* handleSave: writes a file, sets no state
HandleSave ==
  /\ lastStep' = Step("save", IF ecosystem = NoEcosystem THEN "ignored"
                              ELSE "saved")
  /\ UNCHANGED <<ecosystem, isLoading, events, narration, warnings, error,
                 pending>>
  /\ UNCHANGED othersVars

\* handleLoad(file), to await file.text()
HandleLoad(file) ==
  /\ Begin(Op("load", "read", file), "load")
  /\ UNCHANGED othersVars

\* handleLoad after file.text() has settled: parse, pick the state to load,
\* call loadEcosystem and wait for it
HandleLoadParse(file, readable) ==
  /\ BagIn(Op("load", "read", file), pending)
  /\ IF ~readable
       THEN Fail(Op("load", "read", file), "load", "Failed to load: unreadable")
     ELSE IF ParseError(file) # NoError
       THEN Fail(Op("load", "read", file), "load",
                 "Failed to load: " \o ParseError(file))
     ELSE /\ pending' = (pending (-) SetToBag({Op("load", "read", file)}))
                          (+) SetToBag({Op("load", "request", file)})
          /\ lastStep' = Step("load", "requested")
          /\ UNCHANGED <<ecosystem, isLoading, events, narration, warnings,
                         error>>
  /\ UNCHANGED othersVars

\* handleLoad after loadEcosystem(ecosystemToLoad) has settled
HandleLoadResume(file, ok) ==
  /\ BagIn(Op("load", "request", file), pending)
  /\ IF ok
     THEN /\ ecosystem' = LoadedState(file)
          /\ events' = LoadedEvents(file)
          /\ narration' = LoadedNarration(file)
          /\ warnings' = "none"
          /\ isLoading' = FALSE
          /\ pending' = pending (-) SetToBag({Op("load", "request", file)})
          /\ lastStep' = Step("load", "succeeded")
          /\ UNCHANGED error
     ELSE Fail(Op("load", "request", file), "load",
               "Failed to load: backend error")
  /\ UNCHANGED othersVars

NextApp ==
  \/ InitializeEcosystem
  \/ \E ok \in BOOLEAN : InitializeEcosystemResume(ok)
  \/ HandleAdvanceTurn
  \/ \E ok \in BOOLEAN, result \in AdvanceResults :
       HandleAdvanceTurnResume(ok, result)
  \/ HandleSave
  \/ \E file \in Files : HandleLoad(file)
  \/ \E file \in Files, readable \in BOOLEAN : HandleLoadParse(file, readable)
  \/ \E file \in Files, ok \in BOOLEAN : HandleLoadResume(file, ok)

\* --------------------------------------------------------- specifications
\* each specification animates one component; the others rest in one state
\* (Island rests after its first render of the end-to-end input)
IslandRest ==
  \E noise \in {CreateNoise2D(1, NoiseSource(0))} :
  \E elevations \in {TileElevations(EndToEndTiles, EndToEndGrid, noise)} :
  \E placed \in {Props(EndToEndTiles, EndToEndGrid, elevations, 0)} :
  \E drawn \in {DecorationsFrom(placed.items, 1, 0, placed.used)} :
    /\ noiseLib = 1 /\ tiles = EndToEndTiles /\ gridSize = EndToEndGrid
    /\ selectedTile = Null /\ noise2D = noise
    /\ tileElevations = elevations /\ props = placed.items
    /\ meshes = MeshesFrom(EndToEndTiles, 1, EndToEndGrid, elevations, Null)
    /\ decorations = drawn.elems
    /\ renderDraws = placed.used + drawn.used
    /\ rebuilt = FALSE /\ click = NoClick

TerrainRest ==
  /\ species = <<>> /\ season = "spring"
  /\ ecosystemState = EcosystemState(<<>>, "spring")
  /\ uniforms = MaterialUniforms(EcosystemState(<<>>, "spring"))
  /\ effectPending = FALSE

WaterRest ==
  /\ ecosystemHealth = 1000 /\ colors = WaterColors(1000)
  /\ waterUniforms = NoUniforms

CallRest ==
  /\ call = [x |-> 0, y |-> 0, gridSize |-> 1, noise |-> 0]
  /\ ret = [done |-> FALSE, value |-> 0]

Init == IslandInit /\ TerrainRest /\ WaterRest /\ CallRest /\ AppRest
Next == NextIsland
Spec == Init /\ [][Next]_vars

SpecSelect == Init /\ [][NextSelect]_vars

InitTerrain == IslandRest /\ TerrainInit /\ WaterRest /\ CallRest /\ AppRest
SpecTerrain == InitTerrain /\ [][NextTerrain]_vars

InitShading == IslandRest /\ TerrainInit /\ WaterInit /\ CallRest /\ AppRest
SpecShading == InitShading /\ [][NextShading]_vars

InitCall == IslandRest /\ TerrainRest /\ WaterRest /\ CallInit /\ AppRest
SpecCall == InitCall /\ [][NextCall]_vars

InitApp == IslandRest /\ TerrainRest /\ WaterRest /\ CallRest /\ AppInit
SpecApp == InitApp /\ [][NextApp]_vars

\* ================================================================ claims
TileIndices == 1..Len(tiles)

\* the elevation the elevation map holds for tile i
ElevationAt(i) == ElevationOf(tileElevations, tiles[i])

\* a hex mesh was rendered for tile i
HasMesh(i) ==
  \E j \in 1..Len(meshes) : meshes[j].x = tiles[i].x /\ meshes[j].y = tiles[i].y

\* the tile a decoration stands on: its planar position, less the jitter
\* (under half a tile), in grid coordinates
TileOfItem(item) ==
  <<(item.position[1] + Offset(gridSize) + Q \div 2) \div Q,
    (item.position[3] + Offset(gridSize) + Q \div 2) \div Q>>

\* the number of decoration items of one kind placed on tile i
ItemCount(i, kind) ==
  Cardinality({ j \in 1..Len(props) :
                  /\ props[j].type = kind
                  /\ TileOfItem(props[j]) = <<tiles[i].x, tiles[i].y>> })

ItemsOn(i) ==
  Cardinality({ j \in 1..Len(props) :
                  TileOfItem(props[j]) = <<tiles[i].x, tiles[i].y>> })

\* C1: every tile has a mesh iff its elevation is at least 0.08; a tile whose
\* biome always decorates (forest, mountain) carries a decoration iff its
\* elevation is at least 0.15; and a tile carrying a decoration is at least
\* 0.15 high and has a mesh.
C1_VisibleAndEligible ==
  \A i \in TileIndices :
    /\ HasMesh(i) <=> ElevationAt(i) >= 80
    /\ tiles[i].biome \in {"forest", "mountain"} =>
         (ItemsOn(i) > 0 <=> ElevationAt(i) >= 150)
    /\ ItemsOn(i) > 0 => (ElevationAt(i) >= 150 /\ HasMesh(i))

\* a forest tile between the two thresholds: rendered, not decorated
C1_Witness ==
  \E i \in TileIndices :
    /\ tiles[i].biome = "forest"
    /\ ElevationAt(i) >= 80 /\ ElevationAt(i) < 150
    /\ HasMesh(i) /\ ItemsOn(i) = 0

\* the decorations of tile i are those of its biome
DecoratedByBiome(i) ==
  CASE tiles[i].biome = "forest" ->
         /\ ItemCount(i, "tree") \in 1..2
         /\ ItemsOn(i) = ItemCount(i, "tree")
    [] tiles[i].biome = "mountain" ->
         /\ ItemCount(i, "mountain") = 1
         /\ ItemsOn(i) = 1
    [] tiles[i].biome = "grassland" ->
         /\ ItemCount(i, "rock") \in 0..1
         /\ ItemsOn(i) = ItemCount(i, "rock")
    [] OTHER -> ItemsOn(i) = 0

C3_ColourNeverUndefined ==
  \A j \in 1..Len(meshes) : meshes[j].color # "undefined"

Clamp01(v) == Max(0, Min(Q, v))

\* C4: the vegetationHealth uniform lies in [0,1], and the water's lerp
\* factor and opacity are those of ecosystemHealth clamped to [0,1].
C4_ScalarsClamped ==
  /\ uniforms.vegetationHealth >= 0 /\ uniforms.vegetationHealth <= Q
  /\ colors.alpha = Q - Clamp01(ecosystemHealth)
  /\ colors.opacity = 900 + (Clamp01(ecosystemHealth) * 50) \div Q

\* C5: a re-render with the same tile array and grid size, caused by a new
\* selection, leaves every decoration as it was and draws no random number.
C5_SelectionKeepsDecorations ==
  [][selectedTile' # selectedTile =>
       (decorations' = decorations /\ renderDraws' = 0)]_vars

\* the producers' populations, added up from the end of the list
RECURSIVE ProducerPopulation(_)
ProducerPopulation(sp) ==
  IF sp = <<>> THEN 0
  ELSE ProducerPopulation(SubSeq(sp, 1, Len(sp) - 1))
       + (IF sp[Len(sp)].diet = "producer" THEN sp[Len(sp)].population ELSE 0)

\* min(1, total / 10000) in thousandths
SaturatingScale(total) == IF total >= 10000 THEN Q ELSE total \div 10

\* C6 as stated: vegetation health is min(1, producers / 10000) for every
\* species list, 0 for the empty list.
C6_HealthIsScaledPopulation ==
  ecosystemState.vegetationHealth = SaturatingScale(ProducerPopulation(species))

\* C6 (amended): vegetation health is min(1, producers / 10000) for every
\* non-empty species list (0 when no producer is in it) and 1 for the empty
\* list.
C6_HealthOfNonEmptyList ==
  ecosystemState.vegetationHealth =
    IF species = <<>> THEN Q
    ELSE SaturatingScale(ProducerPopulation(species))

\* a list of non-producers only: health 0
C6_Witness ==
  /\ species # <<>>
  /\ \A i \in 1..Len(species) : species[i].diet # "producer"
  /\ ecosystemState.vegetationHealth = 0

\* the four fixed tints, the identity tint for any other label
TintOfLabel(label) ==
  IF label = "winter" THEN <<900, 950, 1100>>
  ELSE IF label = "spring" THEN <<950, 1100, 950>>
  ELSE IF label = "summer" THEN <<1100, 1050, 900>>
  ELSE IF label = "fall" THEN <<1150, 950, 800>>
  ELSE <<Q, Q, Q>>

\* C7 as stated: the season tint is the tint of the season label, whatever
\* the species list.
C7_TintBySeasonAlone == ecosystemState.seasonTint = TintOfLabel(season)

\* C7 (amended): for a non-empty species list the season tint is the tint of
\* the season label; for the empty list it is the identity tint.
C7_TintOfNonEmptyList ==
  ecosystemState.seasonTint =
    IF species = <<>> THEN <<Q, Q, Q>> ELSE TintOfLabel(season)

\* winter with species present: the winter tint
C7_Witness ==
  /\ species # <<>>
  /\ season = "winter"
  /\ ecosystemState.seasonTint = <<900, 950, 1100>>

\* C8: every elevation getIslandElevation returns lies in [0,1].
C8_ElevationInUnitRange ==
  ret.done => (ret.value >= 0 /\ ret.value <= Q)

\* the centre of the island under the highest noise: elevation 1
C8_Witness == ret.done /\ call.noise = 1000 /\ ret.value = Q

\* the tiles with a mesh and their heights
VisibleHeights(ms) ==
  { <<ms[j].x, ms[j].y, ms[j].height>> : j \in 1..Len(ms) }

\* C9: a render over the same tile list and grid size gives every coordinate
\* the elevation it had, and the same visible tiles at the same heights.
C9_ElevationDeterministic ==
  [][(tiles' = tiles /\ gridSize' = gridSize) =>
       (tileElevations' = tileElevations
        /\ VisibleHeights(meshes') = VisibleHeights(meshes))]_vars

\* the elevation map was built again for the same tiles, one of them visible
C9_Witness == rebuilt /\ Len(meshes) > 0

\* the island mask max(0, 1 - 1.2*d) is 0: d >= 1/1.2
OutsideSilhouette(x, y, g) == DistFromCenter(x, y, g) * 12 >= 10 * Q

\* C10: a tile outside the silhouette has elevation 0 under every noise
\* value, and has neither a mesh nor a decoration.
C10_NoLandOutsideSilhouette ==
  \A i \in TileIndices :
    OutsideSilhouette(tiles[i].x, tiles[i].y, gridSize) =>
      (ElevationAt(i) = 0 /\ ~HasMesh(i) /\ ItemsOn(i) = 0)

\* a mountain tile outside the silhouette under the highest noise
C10_Witness ==
  \E i \in TileIndices :
    /\ OutsideSilhouette(tiles[i].x, tiles[i].y, gridSize)
    /\ tiles[i].biome = "mountain"
    /\ SampleNoise(noise2D, tiles[i].x, tiles[i].y) = 1000
    /\ ~HasMesh(i)

\* the elevation the map es holds for the tile a mesh was made for
MeshElevation(es, mesh) == ElevationOf(es, [x |-> mesh.x, y |-> mesh.y])

\* C11: the height of every rendered tile lies in [0.1, 1.6], and of two
\* rendered tiles (of one render or of two successive renders) the one with
\* the higher elevation has the greater height.
C11_HeightIncreasingAndBounded ==
  /\ [](\A j \in 1..Len(meshes) :
          meshes[j].height >= 100 /\ meshes[j].height <= 1600)
  /\ [][\A i \in 1..Len(meshes), j \in 1..Len(meshes') :
          /\ MeshElevation(tileElevations, meshes[i])
               < MeshElevation(tileElevations', meshes'[j])
             => meshes[i].height < meshes'[j].height
          /\ MeshElevation(tileElevations, meshes[i])
               > MeshElevation(tileElevations', meshes'[j])
             => meshes[i].height > meshes'[j].height]_vars

\* a rendered tile of elevation 1, drawn at height 1.6
C11_Witness ==
  \E j \in 1..Len(meshes) :
    /\ MeshElevation(tileElevations, meshes[j]) = Q
    /\ meshes[j].height = 1600

\* decoration k stands on a rendered tile, at that tile's render height, and
\* the tile's mesh is centred on the tile at half that height
OnTileTop(k) ==
  \E j \in 1..Len(meshes) :
    LET height == RenderHeight(MeshElevation(tileElevations, meshes[j]))
    IN /\ <<meshes[j].x, meshes[j].y>> = TileOfItem(decorations[k])
       /\ decorations[k].position[2] = height
       /\ meshes[j].height = height
       /\ meshes[j].position = <<meshes[j].x * Q - Offset(gridSize),
                                 height \div 2,
                                 meshes[j].y * Q - Offset(gridSize)>>

\* C12: every decoration has the y coordinate 0.1 + elevation*1.5 of the
\* rendered tile it was generated for, whose mesh is centred at half that
\* height and at the coordinate less gridSize/2 - 0.5; for grid size 8 and one
\* mountain tile at (4,4) of elevation 0.5 there is one mesh at
\* (0.5, 0.425, 0.5) of height 0.85 and exactly one peak at height 0.85.
C12_DecorationsOnTileTop ==
  /\ \A k \in 1..Len(decorations) : OnTileTop(k)
  /\ (gridSize = EndToEndGrid /\ tiles = EndToEndTiles /\ ElevationAt(1) = 500)
       => /\ Len(meshes) = 1
          /\ meshes[1].position = <<500, 425, 500>>
          /\ meshes[1].height = 850
          /\ Len(decorations) = 1
          /\ decorations[1].type = "mountain"
          /\ decorations[1].position[2] = 850

\* the end-to-end input rendered at elevation 0.5, with its peak
C12_Witness ==
  /\ gridSize = EndToEndGrid /\ tiles = EndToEndTiles
  /\ ElevationAt(1) = 500
  /\ Len(meshes) = 1 /\ Len(decorations) = 1

\* mesh j is drawn highlighted: highlight colour and highlight outline
Highlighted(j) == meshes[j].color = "#ffffff" /\ meshes[j].edges = "#00ffff"

\* C13: a rendered tile is highlighted iff its (x,y) is the selectedTile
\* passed in (none when it is null); a click on a tile calls onTileSelect
\* exactly once, with that tile's (x,y), and leaves the tile array, the grid
\* size, the selection, the elevations, the decorations and the meshes (so
\* the highlighted tile) as they were.
C13_SelectionPassedInAndForwarded ==
  /\ [](\A j \in 1..Len(meshes) :
          Highlighted(j) <=> selectedTile = <<meshes[j].x, meshes[j].y>>)
  /\ [][click'.target # Null =>
          /\ \E j \in 1..Len(meshes) :
               click'.target = <<meshes[j].x, meshes[j].y>>
          /\ click'.calls = <<click'.target>>
          /\ UNCHANGED <<tiles, gridSize, selectedTile, noise2D,
                         tileElevations, props, meshes, decorations>>]_vars

\* the selected tile, drawn highlighted, is clicked
C13_Witness ==
  /\ selectedTile # Null
  /\ \E j \in 1..Len(meshes) :
       /\ Highlighted(j)
       /\ click.target = <<meshes[j].x, meshes[j].y>>
  /\ Len(click.calls) = 1

\* the shading state of a species list and a season label
ShadingOf(sp, label) ==
  IF sp = <<>> THEN [vegetationHealth |-> Q, seasonTint |-> <<Q, Q, Q>>]
  ELSE [vegetationHealth |-> SaturatingScale(ProducerPopulation(sp)),
        seasonTint |-> TintOfLabel(label)]

\* C14: once Terrain has rendered and its effect has run, the material's
\* vegetationHealth and seasonTint uniforms are the shading state of the
\* current species and season; and a step that changes the species, the
\* season, the shading state or the uniforms leaves the tile list, the grid
\* size, the elevation map, the decoration items, the meshes and the
\* decorations as they were.
C14_UniformsFreshAndIsolated ==
  /\ [](~effectPending => uniforms = ShadingOf(species, season))
  /\ [][(\/ species' # species \/ season' # season
         \/ ecosystemState' # ecosystemState \/ uniforms' # uniforms
         \/ effectPending' # effectPending)
        => UNCHANGED <<tiles, gridSize, tileElevations, props, meshes,
                       decorations>>]_vars

\* the effect has run after a render with species present in winter, over an
\* island that has a mesh and a decoration
C14_Witness ==
  /\ ~effectPending
  /\ species # <<>> /\ season = "winter"
  /\ uniforms.seasonTint = <<900, 950, 1100>>
  /\ Len(meshes) > 0 /\ Len(decorations) > 0

\* the backend requests in flight
RequestsInFlight ==
  { op \in BagToSet(pending) : op.phase = "request" }

\* C15: isLoading is true whenever a backend request is in flight, and is
\* false when no operation is under way.
C15_LoadingWhileInFlight ==
  /\ RequestsInFlight # {} => isLoading
  /\ pending = EmptyBag => ~isLoading

\* C16: a step that fails an operation sets a non-null error; no step of an
\* operation other than its success changes ecosystem, events, narration or
\* warnings; handleAdvanceTurn with no ecosystem changes nothing and starts
\* no operation; and a step that starts an operation clears the error.
C16_FailureKeepsState ==
  [][/\ lastStep'.result = "failed" => error' # NoError
     /\ lastStep'.result \in {"started", "requested", "failed", "ignored"}
          => UNCHANGED <<ecosystem, events, narration, warnings>>
     /\ (lastStep'.op = "advance" /\ ecosystem = NoEcosystem
         /\ lastStep'.result \in {"started", "ignored"})
          => /\ lastStep'.result = "ignored"
             /\ UNCHANGED <<ecosystem, isLoading, events, narration,
                            warnings, error, pending>>
     /\ lastStep'.result = "started" => error' = NoError]_vars

\* a load of a file that is not JSON has failed over a loaded ecosystem
C16_Witness ==
  /\ lastStep = Step("load", "failed")
  /\ error = "Failed to load: Invalid JSON file"
  /\ ecosystem = LoadedState("save") /\ events = "savedEvents"

====
